---- MODULE Spec2Model ----
(***************************************************************************)
(* Model of webhook-bridge.py: a bridge between a Minecraft server (game   *)
(* side, pycraft packet listeners) and Discord (chat side, discord.py      *)
(* event handlers).                                                        *)
(*                                                                         *)
(* Spec       game side: connection lifecycle and handle_tab_list          *)
(* SpecChat   game side: connection lifecycle and handle_chat              *)
(* SpecCache  the identity cache and its two lookups                       *)
(* SpecRelay  chat side: on_message, chat-to-game relay and its gate       *)
(* SpecLong   chat side: on_message with messages near the length ceiling  *)
(* SpecLink   chat side: on_message mc!register and the bind               *)
(***************************************************************************)
EXTENDS Integers, Sequences, FiniteSets, TLC

VARIABLES
    UUID_CACHE,            \* bidict uuid <-> username                (line 38)
    WEBHOOKS,              \* list of delivery endpoint urls           (line 39)
    NEXT_MESSAGE_TIME,     \* earliest time of the next relay          (line 41)
    PREVIOUS_MESSAGE,      \* last relayed chat-to-game text           (line 42)
    PLAYER_LIST,           \* bidict uuid <-> username, this session   (line 43)
    PREVIOUS_PLAYER_LIST,  \* snapshot taken by handle_disconnect      (line 44)
    ACCEPT_JOIN_EVENTS,    \* FALSE while backfilling                  (line 45)
    es_enabled,            \* config.es_enabled
    session,               \* position of the game connection
    accounts,              \* DiscordAccount rows, by discord id
    channels,              \* DiscordChannel rows, in query order
    platformHooks,         \* the "_minecraft" webhooks that exist: <<url, channel>>
    out,                   \* what the last on_message call sent and to whom
    msg,                   \* the last chat-side event and how it ended
    now,                   \* datetime.now(timezone.utc)
    notes,                 \* what the last handler sent out
    lastEv,                \* the event the last handler was called with
    ideal,                 \* adds minus removes since the session was Active
    tabLoop,               \* position of handle_tab_list's loop over a packet
    online,                \* the server's own tab list in this session
    lostPresence           \* keys of PLAYER_LIST when the session was lost

vars == <<UUID_CACHE, WEBHOOKS, NEXT_MESSAGE_TIME, PREVIOUS_MESSAGE, PLAYER_LIST,
          PREVIOUS_PLAYER_LIST, ACCEPT_JOIN_EVENTS, es_enabled, session, accounts,
          channels, platformHooks, out, msg, now, notes, lastEv, ideal, tabLoop, online,
          lostPresence>>

gameVars == <<UUID_CACHE, PLAYER_LIST, PREVIOUS_PLAYER_LIST, ACCEPT_JOIN_EVENTS,
              session, notes, lastEv, ideal, tabLoop, online, lostPresence>>
relayVars == <<NEXT_MESSAGE_TIME, PREVIOUS_MESSAGE, accounts, channels, platformHooks,
               out, msg, now>>

(***************************************************************************)
(* Bounds and universes                                                    *)
(***************************************************************************)
None == "None"
\* outcome of a request to the Mojang API that raised or returned no usable body
Fail == "Fail"

BOT_USERNAME == "Bot"
\* persistent identities; a uuid string is a key, written with or without dashes.
\* k0 is the account the bridge logs in with.
UuidKeys == {"k0", "k1"}
\* the names an identity has over time (a player may rename between sessions)
NamesOf(k) == IF k = "k0" THEN {BOT_USERNAME} ELSE {"amy", "cy"}
PlayerNames == UNION {NamesOf(k) : k \in UuidKeys}
Uuid(k, d) == [k |-> k, dashed |-> d]
\* uuid.replace("-", "")
ShortUuid(u) == [u EXCEPT !.dashed = FALSE]
\* str(uuid.UUID(x))
LongUuid(u) == [u EXCEPT !.dashed = TRUE]
\* pycraft hands out action.uuid in the dashed form
GameUuids == {Uuid(k, TRUE) : k \in UuidKeys}
\* no id: the API request for an id raised, or a lookup returned None
NoUuid == [k |-> "none", dashed |-> FALSE]

(***************************************************************************)
(* bidict: a set of <<key, value>> pairs, one-to-one                       *)
(***************************************************************************)
Keys(b) == {p[1] : p \in b}
Vals(b) == {p[2] : p \in b}
Get(b, k) == (CHOOSE p \in b : p[1] = k)[2]
InvGet(b, v) == (CHOOSE p \in b : p[2] = v)[1]

\* b[k] = v: overwrites the value of k, raises ValueDuplicationError when v
\* belongs to another key; a failed put leaves b as it was
BidictPut(b, k, v) ==
    IF <<k, v>> \in b THEN [ok |-> TRUE, b |-> b]
    ELSE IF v \in Vals(b) THEN [ok |-> FALSE, b |-> b]
    ELSE [ok |-> TRUE, b |-> {p \in b : p[1] # k} \cup {<<k, v>>}]

\* b.inv[v] = k: the same on the inverse view
BidictInvPut(b, v, k) ==
    IF <<k, v>> \in b THEN [ok |-> TRUE, b |-> b]
    ELSE IF k \in Keys(b) THEN [ok |-> FALSE, b |-> b]
    ELSE [ok |-> TRUE, b |-> {p \in b : p[2] # v} \cup {<<k, v>>}]

BidictDel(b, k) == {p \in b : p[1] # k}

(***************************************************************************)
(* Identity cache                                                          *)
(***************************************************************************)
\* what a request to the Mojang API can end with besides an answer: Fail, the
\* request raises (network error); NoContent, the identity is unknown and .json()
\* raises on the empty body; EmptyHistory, the name history is []
NoContent == "NoContent"
EmptyHistory == "EmptyHistory"
NameFailures == {Fail, NoContent, EmptyHistory}
\* the same for a request for an id, written as ids: NoUuid, the request raises;
\* UnknownName, no body or no "id" in it; BadId, an "id" uuid.UUID() rejects
UnknownName == [k |-> "unknown", dashed |-> FALSE]
BadId == [k |-> "bad", dashed |-> FALSE]
IdFailures == {NoUuid, UnknownName, BadId}
NoExc == "no exception"

\* an except clause that names the errors of the request only
ExceptRequestErrors(exc) == exc \in {"ConnectionError", "JSONDecodeError"}

\* line 63: except Exception
ExceptException(exc) == TRUE

\* line 78: except:
ExceptAll(exc) == TRUE

\* lines 53-62, the try block: the exception it ends with, or the name it returns
NameTry(cache, key, uuid, res) ==
    IF res = Fail THEN [exc |-> "ConnectionError", cache |-> cache, ret |-> None]
    ELSE IF res = NoContent THEN [exc |-> "JSONDecodeError", cache |-> cache, ret |-> None]
    ELSE IF res = EmptyHistory THEN [exc |-> "IndexError", cache |-> cache, ret |-> None]
    ELSE LET put == BidictPut(cache, key, res)
         IN  IF put.ok THEN [exc |-> NoExc, cache |-> put.b, ret |-> res]
             ELSE [exc |-> "ValueDuplicationError", cache |-> cache, ret |-> None]

\* lines 50-67 around a try block that stores under key
NameLookup(cache, key, uuid, res) ==
    IF uuid \notin Keys(cache)
    THEN LET t == NameTry(cache, key, uuid, res)
         IN  IF t.exc = NoExc
             THEN [cache |-> t.cache, ret |-> t.ret, raised |-> FALSE]
             ELSE [cache |-> cache, ret |-> None, raised |-> ~ExceptException(t.exc)]
    ELSE [cache |-> cache, ret |-> Get(cache, uuid), raised |-> FALSE]

\* line 61 written with the undashed id as the key: UUID_CACHE[short_uuid] = name
mc_uuid_to_username_short_key(cache, uuid, res) ==
    NameLookup(cache, ShortUuid(uuid), uuid, res)

\* mc_uuid_to_username(uuid); res is the name the Mojang API answers with, or one
\* of NameFailures
mc_uuid_to_username(cache, uuid, res) == NameLookup(cache, uuid, uuid, res)

\* lines 73-77, the try block
IdTry(cache, username, res) ==
    IF res = NoUuid THEN [exc |-> "ConnectionError", cache |-> cache, ret |-> NoUuid]
    ELSE IF res = UnknownName THEN [exc |-> "KeyError", cache |-> cache, ret |-> NoUuid]
    ELSE IF res = BadId THEN [exc |-> "ValueError", cache |-> cache, ret |-> NoUuid]
    ELSE LET put == BidictInvPut(cache, username, LongUuid(res))
         IN  IF put.ok THEN [exc |-> NoExc, cache |-> put.b, ret |-> res]
             ELSE [exc |-> "ValueDuplicationError", cache |-> cache, ret |-> NoUuid]

\* mc_username_to_uuid(username); res is the undashed id the API answers with, or
\* one of IdFailures
mc_username_to_uuid(cache, username, res) ==
    IF username \notin Vals(cache)
    THEN LET t == IdTry(cache, username, res)
         IN  IF t.exc = NoExc
             THEN [cache |-> t.cache, ret |-> t.ret, raised |-> FALSE]
             ELSE [cache |-> cache, ret |-> NoUuid, raised |-> ~ExceptAll(t.exc)]
    ELSE [cache |-> cache, ret |-> InvGet(cache, username), raised |-> FALSE]

(***************************************************************************)
(* What a handler sends out.  via "hook" is requests.post to one entry of  *)
(* WEBHOOKS (ok: the post returned), via "es" is el.log_connection.  acc   *)
(* is ACCEPT_JOIN_EVENTS when the action that caused it started.           *)
(***************************************************************************)
Note(via, kind, uuid, hook, ok, acc, cause) ==
    [via |-> via, kind |-> kind, uuid |-> uuid, hook |-> hook, ok |-> ok,
     acc |-> acc, cause |-> cause]

AddPlayerAction(u, n) == [type |-> "add", uuid |-> u, name |-> n]
RemovePlayerAction(u) == [type |-> "remove", uuid |-> u, name |-> None]
TabActions ==
    UNION {{AddPlayerAction(u, n) : n \in NamesOf(u.k)} : u \in GameUuids}
        \cup {RemovePlayerAction(u) : u \in GameUuids}
\* for webhook in WEBHOOKS: requests.post(webhook, json=payload)
\* postFail = 0: every post returns; postFail = i: the post to WEBHOOKS[i] raises
PostAll(g, hooks, kind, uuid, acc, cause, postFail) ==
    LET last == IF postFail = 0 THEN Len(hooks) ELSE postFail
        sent == {Note("hook", kind, uuid, hooks[i], i # postFail, acc, cause) : i \in 1..last}
    IN  [g EXCEPT !.notes = @ \cup sent, !.err = (postFail # 0)]

EsLog(g, on, kind, uuid, acc, cause) ==
    IF on THEN [g EXCEPT !.notes = @ \cup {Note("es", kind, uuid, None, TRUE, acc, cause)}]
    ELSE g

\* the reordering of lines 289 and 304-305: the flag is set before it is read
JoinAnnouncedOwnFirst(accept, a) == accept \/ a.name = BOT_USERNAME

\* line 289: is this add announced as a join
JoinAnnounced(accept, a) == accept

\* an add that leaves the cache as it is
CachePutSkipped(cache, name, uuid) == [ok |-> TRUE, b |-> cache]

\* lines 286-287: if action.name not in UUID_CACHE.inv: UUID_CACHE.inv[name] = uuid
CachePut(cache, name, uuid) ==
    IF name \notin Vals(cache)
    THEN BidictInvPut(cache, name, uuid)
    ELSE [ok |-> TRUE, b |-> cache]

\* lines 276-317: one AddPlayerAction
TabAdd(g, a, hooks, es, prev, postFail) ==
    IF a.name \in Vals(g.players)
    THEN [g EXCEPT !.done = TRUE]                                \* line 285
    ELSE
    LET p == BidictInvPut(g.players, a.name, a.uuid)             \* line 282
    IN  IF ~p.ok THEN [g EXCEPT !.err = TRUE]
        ELSE
        LET c == CachePut(g.cache, a.name, a.uuid)               \* lines 286-287
            g1 == [g EXCEPT !.players = p.b]
        IN  IF ~c.ok THEN [g1 EXCEPT !.err = TRUE]
            ELSE
            LET g2 == [g1 EXCEPT !.cache = c.b]
            IN  IF JoinAnnounced(g2.accept, a)
                THEN LET g3 == PostAll(g2, hooks, "join", a.uuid, g.accept, a, postFail)
                     IN  IF g3.err THEN g3
                         ELSE [EsLog(g3, es, "connected", a.uuid, g.accept, a)
                                  EXCEPT !.done = TRUE]          \* line 301
                ELSE
                LET g4 == IF a.name = BOT_USERNAME               \* lines 304-314
                          THEN LET diff == Keys(prev) \ Keys(g2.players)
                                   logged == {Note("es", "leave", u, None, TRUE, FALSE, a)
                                                 : u \in IF es THEN diff ELSE {}}
                               IN  EsLog([g2 EXCEPT !.accept = TRUE,
                                                    !.notes = @ \cup logged],
                                         es, "connected", a.uuid, FALSE, a)
                          ELSE g2
                IN  EsLog(g4, es, "seen", a.uuid, FALSE, a)      \* line 317

\* lines 318-333: one RemovePlayerAction
TabRemove(g, a, hooks, es, lookup, postFail) ==
    LET lk == mc_uuid_to_username(g.cache, a.uuid, lookup)       \* line 320
        g1 == PostAll([g EXCEPT !.cache = lk.cache], hooks, "leave", a.uuid,
                      g.accept, a, postFail)
    IN  IF g1.err THEN g1
        ELSE IF a.uuid \notin Keys(g1.cache)
        THEN [g1 EXCEPT !.err = TRUE]                            \* line 330: KeyError
        ELSE LET g2 == [g1 EXCEPT !.cache = BidictDel(@, a.uuid)]
             IN  IF a.uuid \notin Keys(g2.players)
                 THEN [g2 EXCEPT !.err = TRUE]                   \* line 331: KeyError
                 ELSE EsLog([g2 EXCEPT !.players = BidictDel(@, a.uuid)],
                            es, "leave", a.uuid, g.accept, a)

TabAction(g, a, hooks, es, prev, lookup, postFail) ==
    IF a.type = "add"
    THEN TabAdd(g, a, hooks, es, prev, postFail)
    ELSE TabRemove(g, a, hooks, es, lookup, postFail)

\* the presence set the actions ask for: adds minus removes
IdealStep(S, a) ==
    IF a.type = "add" THEN S \cup {a.uuid} ELSE S \ {a.uuid}

(***************************************************************************)
(* Game side: connection lifecycle (lines 180-241, 390-392)                *)
(*   session = "probing": not connected, in a `while not is_server_online` *)
(*             loop (lines 190, 220, 236)                                  *)
(*   session = "login":   connection.connect() returned, no JoinGamePacket *)
(*   session = "play":    handle_join_game has run                         *)
(***************************************************************************)
Ev(kind, acc, err, ownSeen, renamed) ==
    [kind |-> kind, acc |-> acc, err |-> err, ownSeen |-> ownSeen, renamed |-> renamed,
     speaker |-> None, rt |-> [id |-> NoUuid, miss |-> FALSE, name |-> None, back |-> NoUuid],
     after |-> None, re |-> FALSE, health |-> 1, written |-> <<>>,
     action |-> [type |-> None, uuid |-> NoUuid, name |-> None], listed |-> FALSE,
     lk |-> [fn |-> None, outcome |-> None, raised |-> FALSE, unknown |-> FALSE,
             kept |-> TRUE]]

\* WEBHOOKS after on_ready with two registered channels
GameWebhooks == <<"h1", "h2">>
\* the hooks of those channels, as mc!chathere created them (lines 516-517)
ChannelHooks == {<<"h1", "c1">>, <<"h2", "c2">>}

GameInit ==
    /\ UUID_CACHE = {}
    /\ PLAYER_LIST = {}
    /\ PREVIOUS_PLAYER_LIST = {}
    /\ ACCEPT_JOIN_EVENTS = FALSE
    /\ session = "probing"
    /\ notes = {}
    /\ lastEv = Ev("init", FALSE, FALSE, FALSE, {})
    /\ ideal = {}
    /\ tabLoop = "idle"
    /\ online = {}
    /\ lostPresence = {}

(***************************************************************************)
(* The store behind database_session: DiscordAccount rows by discord id,   *)
(* each with zero or one link_token and zero or one minecraft_account, and *)
(* DiscordChannel rows.                                                    *)
(***************************************************************************)
Users == {"u1", "u2", "u3", "u4"}
Tokens == {"t1", "t2", "t3"}
NoRow == [exists |-> FALSE, link_token |-> None, minecraft_uuid |-> NoUuid]
Row(token, uuid) == [exists |-> TRUE, link_token |-> token, minecraft_uuid |-> uuid]
\* an empty store
NoAccounts == [u \in Users |-> NoRow]
\* a store in which u1 and u2 are linked (u2's id is held undashed), u3 has
\* asked for a token and u4 is unknown
LinkedAccounts ==
    [u \in Users |-> CASE u = "u1" -> Row(None, Uuid("k1", TRUE))
                      [] u = "u2" -> Row(None, Uuid("k0", FALSE))
                      [] u = "u3" -> Row("t1", NoUuid)
                      [] OTHER -> NoRow]
\* the channels registered with mc!chathere, each with its "_minecraft" webhook
ChannelRows == <<"c1", "c2">>

\* msg before any chat-side event.  lastText, lastAt and lastRelayed remember the
\* last message that passed the gate; issued the tokens handed to each account
\* since its last bind; presented, at a bind, whether the token shown was the
\* account's latest or an earlier one.
MsgIdle ==
    [kind |-> "init", author |-> None, channel |-> None, outcome |-> None,
     name |-> None, norm |-> <<>>, esc |-> <<>>, text |-> <<>>, shown |-> <<>>,
     same |-> FALSE, elapsed |-> TRUE, hadLast |-> FALSE, lastText |-> <<>>,
     lastAt |-> 0, lastRelayed |-> FALSE, prevRelayed |-> FALSE, token |-> None, accepted |-> FALSE,
     deleted |-> 0, key |-> NoUuid,
     issued |-> [u \in Users |-> <<>>], presented |-> [u \in Users |-> "no"]]

RelayIdle ==
    /\ NEXT_MESSAGE_TIME = 0
    /\ PREVIOUS_MESSAGE = <<>>
    /\ channels = ChannelRows
    /\ platformHooks = ChannelHooks
    /\ out = {}
    /\ msg = MsgIdle
    /\ now = 0

Init ==
    /\ GameInit
    /\ RelayIdle
    /\ accounts = NoAccounts
    /\ WEBHOOKS = GameWebhooks
    /\ es_enabled \in BOOLEAN

\* the same with the store as earlier runs left it
InitLinked ==
    /\ GameInit
    /\ RelayIdle
    /\ accounts = LinkedAccounts
    /\ WEBHOOKS = GameWebhooks
    /\ es_enabled \in BOOLEAN

\* handle_disconnect (lines 180-194) up to the probing loop; players is PLAYER_LIST
\* as the failing handler left it
handle_disconnect(players) ==
    /\ PREVIOUS_PLAYER_LIST' = players
    /\ ACCEPT_JOIN_EVENTS' = FALSE
    /\ PLAYER_LIST' = {}
    /\ session' = "probing"
    /\ ideal' = {}
    /\ tabLoop' = "idle"
    /\ online' = {}
    /\ lostPresence' = IF session = "play" THEN Keys(players) ELSE lostPresence

\* what server.status() ends with: an answer, or one of these exceptions
\* ("timeout" stands for socket.timeout and every other error of the socket)
ProbeOutcomes == {"status", "ConnectionRefusedError", "AttributeError", "timeout"}

\* is_server_online (lines 203-214)
is_server_online(outcome) ==
    IF outcome = "status" THEN [raised |-> FALSE, ret |-> TRUE]
    ELSE IF outcome \in {"ConnectionRefusedError", "AttributeError"}
         THEN [raised |-> FALSE, ret |-> FALSE]
         ELSE [raised |-> TRUE, ret |-> FALSE]

\* a loop that is left whatever the probe said
ProbeLoopEndsAnyway(probe) == TRUE

\* lines 190, 220 and 236: while not is_server_online()
ProbeLoopEnds(probe) == probe.ret

\* one turn of the probing loop, at startup (lines 218-241) or in handle_disconnect
\* (lines 190-192).  session "reachable": the loop is left, connect() comes next;
\* "dead": an exception left the loop and the thread that ran it.  lastEv.re
\* tells the loop of handle_disconnect from the loop of startup
ProbeStep(outcome, kind) ==
    LET probe == is_server_online(outcome)
    IN  /\ session = "probing"
        /\ session' = IF probe.raised THEN "dead"
                      ELSE IF ProbeLoopEnds(probe) THEN "reachable" ELSE "probing"
        /\ lastEv' = [Ev(kind, ACCEPT_JOIN_EVENTS, probe.raised, FALSE, {})
                         EXCEPT !.re = IF lastEv.kind = "probe_offline" THEN lastEv.re
                                       ELSE lastEv.kind # "init"]
        /\ notes' = {}
        /\ UNCHANGED <<UUID_CACHE, PLAYER_LIST, PREVIOUS_PLAYER_LIST, ACCEPT_JOIN_EVENTS,
                       ideal, tabLoop, online, lostPresence, WEBHOOKS, es_enabled,
                       relayVars>>

\* is_server_online() returned False: sleep and probe again
ProbeOffline ==
    \E outcome \in {"ConnectionRefusedError", "AttributeError"} :
        ProbeStep(outcome, "probe_offline")

\* is_server_online() returned True
ProbeOnline == ProbeStep("status", "probe_online")

\* server.status() raised what is_server_online does not catch
ProbeRaises == ProbeStep("timeout", "probe_raised")

\* connection.connect() (lines 194 and 392) logged in
ConnectOk ==
    /\ session = "reachable"
    /\ session' = "login"
    /\ lastEv' = [Ev("connect", ACCEPT_JOIN_EVENTS, FALSE, FALSE, {})
                     EXCEPT !.after = lastEv.kind]
    /\ notes' = {}
    /\ UNCHANGED <<UUID_CACHE, PLAYER_LIST, PREVIOUS_PLAYER_LIST, ACCEPT_JOIN_EVENTS,
                   ideal, tabLoop, online, lostPresence, WEBHOOKS, es_enabled,
                   relayVars>>

\* connection.connect() failed: pycraft hands the exception to
\* minecraft_handle_exception (lines 199-201)
ConnectFail ==
    /\ session = "reachable"
    /\ handle_disconnect(PLAYER_LIST)
    /\ lastEv' = [Ev("connect", ACCEPT_JOIN_EVENTS, TRUE, FALSE, {})
                     EXCEPT !.after = lastEv.kind]
    /\ notes' = {}
    /\ UNCHANGED <<UUID_CACHE, WEBHOOKS, es_enabled, relayVars>>

\* handle_join_game (lines 335-338)
HandleJoinGame ==
    /\ session = "login"
    /\ session' = "play"
    /\ PLAYER_LIST' = {}
    /\ ideal' = {}
    /\ online' = {}
    /\ lastEv' = Ev("join_game", ACCEPT_JOIN_EVENTS, FALSE, FALSE, {})
    /\ notes' = {}
    /\ UNCHANGED <<UUID_CACHE, PREVIOUS_PLAYER_LIST, ACCEPT_JOIN_EVENTS, tabLoop,
                   lostPresence, WEBHOOKS, es_enabled, relayVars>>

\* handle_disconnect_packet (lines 196-197)
HandleDisconnectPacket ==
    /\ session = "play"
    /\ tabLoop = "idle"
    /\ handle_disconnect(PLAYER_LIST)
    /\ lastEv' = Ev("disconnect_packet", ACCEPT_JOIN_EVENTS, FALSE, FALSE, {})
    /\ notes' = {}
    /\ UNCHANGED <<UUID_CACHE, WEBHOOKS, es_enabled, relayVars>>

\* minecraft_handle_exception (lines 199-201) for a fault of the transport
HandleException ==
    /\ session \in {"login", "play"}
    /\ tabLoop = "idle"
    /\ handle_disconnect(PLAYER_LIST)
    /\ lastEv' = Ev("exception", ACCEPT_JOIN_EVENTS, TRUE, FALSE, {})
    /\ notes' = {}
    /\ UNCHANGED <<UUID_CACHE, WEBHOOKS, es_enabled, relayVars>>

\* an add action, the first for its identity and name in this session, that
\* presents a new name for an identity the cache holds
Renamed(cache, players, a) ==
    IF /\ a.type = "add"
       /\ a.uuid \notin Keys(players) /\ a.name \notin Vals(players)
       /\ a.uuid \in Keys(cache) /\ Get(cache, a.uuid) # a.name
    THEN {<<a.uuid, a.name>>}
    ELSE {}

\* What the server sends: an add for a player it lists already (a duplicate, line
\* 284) or for one whose identity and name are both new to its list; a remove for
\* any identity, listed or not.
ServerSends(a) ==
    a.type = "add" =>
        \/ <<a.uuid, a.name>> \in online
        \/ a.uuid \notin Keys(online) /\ a.name \notin Vals(online)

ServerList(a) ==
    IF a.type = "add" THEN online \cup {<<a.uuid, a.name>>}
    ELSE BidictDel(online, a.uuid)

\* handle_tab_list (lines 272-333), one iteration of `for action in
\* tab_list_packet.actions` per step.  tabLoop = "idle": between packets;
\* "open": inside the loop; "returned": the handler has returned (lines 285, 301)
\* and the packet still holds actions, which nothing looks at.  more: the packet
\* holds further actions after this one.  An exception leaving the handler
\* reaches minecraft_handle_exception, hence handle_disconnect.
HandleTabList ==
    /\ session = "play"
    /\ \E a \in {x \in TabActions : ServerSends(x)}, more \in BOOLEAN :
       \E lookup \in (IF a.type = "remove" /\ a.uuid \notin Keys(UUID_CACHE)
                         /\ tabLoop # "returned"
                      THEN NamesOf(a.uuid.k) \cup {Fail} ELSE {Fail}) :
       \E postFail \in (IF tabLoop = "returned" THEN {0} ELSE 0..Len(WEBHOOKS)) :
          LET g0 == [cache |-> UUID_CACHE, players |-> PLAYER_LIST,
                     accept |-> ACCEPT_JOIN_EVENTS, notes |-> {},
                     err |-> FALSE, done |-> FALSE]
              g == IF tabLoop = "returned" THEN g0
                   ELSE TabAction(g0, a, WEBHOOKS, es_enabled, PREVIOUS_PLAYER_LIST,
                                  lookup, postFail)
          IN  /\ postFail # 0 => \E n \in g.notes : n.via = "hook" /\ ~n.ok
              /\ UUID_CACHE' = g.cache
              /\ notes' = g.notes
              /\ lastEv' = [Ev(IF tabLoop = "returned" THEN "tab_skipped" ELSE "tab",
                               ACCEPT_JOIN_EVENTS, g.err,
                               ~ACCEPT_JOIN_EVENTS /\ g.accept,
                               IF tabLoop = "returned" THEN {} ELSE Renamed(UUID_CACHE, PLAYER_LIST, a))
                               EXCEPT !.action = a,
                                      !.listed = a.uuid \in Keys(PLAYER_LIST)]
              /\ IF g.err
                 THEN handle_disconnect(g.players)
                 ELSE /\ PLAYER_LIST' = g.players
                      /\ ACCEPT_JOIN_EVENTS' = g.accept
                      /\ ideal' = IF ACCEPT_JOIN_EVENTS
                                  THEN IdealStep(ideal, a)
                                  ELSE Keys(g.players)
                      /\ tabLoop' = IF ~more THEN "idle"
                                    ELSE IF g.done \/ tabLoop = "returned"
                                    THEN "returned" ELSE "open"
                      /\ online' = ServerList(a)
                      /\ UNCHANGED <<PREVIOUS_PLAYER_LIST, session, lostPresence>>
    /\ UNCHANGED <<WEBHOOKS, es_enabled, relayVars>>

(***************************************************************************)
(* handle_chat (lines 340-381).  json_data["extra"] is a list of           *)
(* components; chat_string is their texts joined, kept here as the list of *)
(* texts, and the regular expressions are matched text by text: "<", "> "  *)
(* and ": " occur as whole texts.                                          *)
(***************************************************************************)
\* str.lower() on the texts used here: all but the spellings of the bot's name
\* are lower case already
Lower(x) == IF x \in {"Bot", "BOT", "bot"} THEN "bot" ELSE x

RECURSIVE Concat(_)
Concat(q) == IF q = <<>> THEN "" ELSE Head(q) \o Concat(Tail(q))

\* the speaker compared as written, without lower()
IsOwnSpeakerExact(username) == username = BOT_USERNAME

\* line 354: username.lower() == BOT_USERNAME.lower()
IsOwnSpeaker(username) == Lower(username) = Lower(BOT_USERNAME)

\* re.match("<(.*?)> (.*)", chat_string): group 1 ends at the first "> "
MatchSaid(cs) ==
    IF Len(cs) >= 2 /\ cs[1] = "<" /\ \E j \in 2..Len(cs) : cs[j] = "> "
    THEN LET j == CHOOSE i \in 2..Len(cs) :
                      cs[i] = "> " /\ \A h \in 2..(i - 1) : cs[h] # "> "
         IN  [ok |-> TRUE, username |-> Concat(SubSeq(cs, 2, j - 1))]
    ELSE [ok |-> FALSE, username |-> None]

\* re.match("<{}> (.*?): (.*)".format(BOT_USERNAME.lower()), chat_string, re.I):
\* group 1 ends at the first ": " after "<bot> "
MatchRelayed(cs) ==
    IF /\ Len(cs) >= 4 /\ cs[1] = "<" /\ Lower(cs[2]) = Lower(BOT_USERNAME)
       /\ cs[3] = "> " /\ \E j \in 4..Len(cs) : cs[j] = ": "
    THEN LET j == CHOOSE i \in 4..Len(cs) :
                      cs[i] = ": " /\ \A h \in 4..(i - 1) : cs[h] # ": "
         IN  [ok |-> TRUE, sender |-> Concat(SubSeq(cs, 4, j - 1))]
    ELSE [ok |-> FALSE, sender |-> None]

\* the speakers a server may show and what they may say
Speakers == {"Bot", "BOT", "bot", "amy"}
Said == {<<"hi">>, <<"amy", ": ", "hi">>, <<"hi", "> ", "amy">>, <<>>}
ChatPackets ==
    {[has_extra |-> TRUE, extra |-> <<"<", n, "> ">> \o m] : n \in Speakers, m \in Said}
        \cup {[has_extra |-> TRUE, extra |-> <<"amy", " joined the game">>],
              [has_extra |-> TRUE, extra |-> <<"<", "amy">>],
              [has_extra |-> TRUE, extra |-> <<"<", "Bot", "amy", "> ", "hi">>],
              [has_extra |-> FALSE, extra |-> <<>>]}

\* the undashed ids the Mojang API may answer a name with
IdsOf(name) ==
    {Uuid(k, FALSE) : k \in {x \in UuidKeys : \E n \in NamesOf(x) : Lower(n) = Lower(name)}}

ChatCause(username) == [type |-> "chat", uuid |-> NoUuid, name |-> username]

handle_chat(g, pkt, hooks, es, res1, res2, postFail) ==
    IF ~pkt.has_extra THEN g                                     \* lines 342-343
    ELSE
    LET m == MatchSaid(pkt.extra)
    IN  IF ~m.ok THEN EsLog(g, es, "raw_log", NoUuid, g.accept, ChatCause(None))
        ELSE
        LET lk == mc_username_to_uuid(g.cache, m.username, res1) \* line 353
            g1 == [g EXCEPT !.cache = lk.cache]
            cause == ChatCause(m.username)
        IN  IF IsOwnSpeaker(m.username)
            THEN LET r == MatchRelayed(pkt.extra)                \* lines 356-366
                 IN  IF es /\ r.ok
                     THEN LET lk2 == mc_username_to_uuid(g1.cache, r.sender, res2)
                          IN  EsLog([g1 EXCEPT !.cache = lk2.cache], es, "chat_log",
                                    lk2.ret, g.accept, cause)
                     ELSE g1
            ELSE LET g2 == PostAll(g1, hooks, "chat", lk.ret, g.accept, cause,
                                   postFail)                     \* lines 370-376
                 IN  IF g2.err THEN g2
                     ELSE EsLog(g2, es, "chat_log", lk.ret, g.accept, cause)

HandleChat ==
    /\ session = "play"
    /\ tabLoop = "idle"
    /\ \E pkt \in ChatPackets :
       LET m == MatchSaid(pkt.extra)
           r == MatchRelayed(pkt.extra)
       IN
       \E res1 \in (IF m.ok /\ m.username \notin Vals(UUID_CACHE)
                    THEN IdsOf(m.username) \cup {NoUuid} ELSE {NoUuid}) :
       \E res2 \in (IF m.ok /\ r.ok /\ es_enabled /\ IsOwnSpeaker(m.username)
                    THEN IdsOf(r.sender) \cup {NoUuid} ELSE {NoUuid}) :
       \E postFail \in (IF m.ok /\ ~IsOwnSpeaker(m.username)
                        THEN 0..Len(WEBHOOKS) ELSE {0}) :
          LET g0 == [cache |-> UUID_CACHE, players |-> PLAYER_LIST,
                     accept |-> ACCEPT_JOIN_EVENTS, notes |-> {},
                     err |-> FALSE, done |-> FALSE]
              g == handle_chat(g0, pkt, WEBHOOKS, es_enabled, res1, res2, postFail)
          IN  /\ UUID_CACHE' = g.cache
              /\ notes' = g.notes
              /\ lastEv' = [Ev("chat", ACCEPT_JOIN_EVENTS, g.err, FALSE, {})
                               EXCEPT !.speaker = m.username]
              /\ IF g.err
                 THEN handle_disconnect(g.players)
                 ELSE UNCHANGED <<PLAYER_LIST, PREVIOUS_PLAYER_LIST, ACCEPT_JOIN_EVENTS,
                                  session, ideal, tabLoop, online, lostPresence>>
    /\ UNCHANGED <<WEBHOOKS, es_enabled, relayVars>>

(***************************************************************************)
(* handle_health_update (lines 383-388).  lastEv.written is what the       *)
(* handler passed to connection.write_packet, in order.                    *)
(***************************************************************************)
\* health_update_packet.health: dead, dead with overkill, nearly dead, full
Healths == {-1, 0, 1, 20}

\* a respawn only for health below zero
NeedsRespawnBelowZero(health) == health < 0

\* line 384
NeedsRespawn(health) == health <= 0

\* lines 384-388
handle_health_update(health) ==
    IF NeedsRespawn(health) THEN <<"RESPAWN">> ELSE <<>>

HandleHealthUpdate ==
    /\ session = "play"
    /\ tabLoop = "idle"
    /\ \E health \in Healths :
          lastEv' = [Ev("health", ACCEPT_JOIN_EVENTS, FALSE, FALSE, {})
                        EXCEPT !.health = health,
                               !.written = handle_health_update(health)]
    /\ notes' = {}
    /\ UNCHANGED <<UUID_CACHE, PLAYER_LIST, PREVIOUS_PLAYER_LIST, ACCEPT_JOIN_EVENTS,
                   session, ideal, tabLoop, online, lostPresence, WEBHOOKS, es_enabled,
                   relayVars>>

Next ==
    \/ ProbeOffline
    \/ ProbeOnline
    \/ ProbeRaises
    \/ ConnectOk
    \/ ConnectFail
    \/ HandleJoinGame
    \/ HandleDisconnectPacket
    \/ HandleException
    \/ HandleTabList

Spec == Init /\ [][Next]_vars

(***************************************************************************)
(* The identity cache on its own: every statement of the program that      *)
(* reads or writes UUID_CACHE, and the two lookups called back to back.    *)
(***************************************************************************)
\* ids reach the lookups dashed (pycraft, line 320) or as the database holds
\* them (line 619)
AllUuids == {Uuid(k, d) : k \in UuidKeys, d \in BOOLEAN}

CacheOnly == UNCHANGED <<WEBHOOKS, es_enabled, relayVars, PLAYER_LIST, PREVIOUS_PLAYER_LIST,
                         ACCEPT_JOIN_EVENTS, session, notes, ideal, tabLoop, online,
                         lostPresence>>

\* lines 286-287
CachePlayerAdded ==
    /\ \E u \in GameUuids : \E n \in NamesOf(u.k) :
          /\ UUID_CACHE' = IF n \notin Vals(UUID_CACHE)
                           THEN BidictInvPut(UUID_CACHE, n, u).b ELSE UUID_CACHE
          /\ lastEv' = Ev("cache_add", ACCEPT_JOIN_EVENTS,
                          n \notin Vals(UUID_CACHE) /\ ~BidictInvPut(UUID_CACHE, n, u).ok,
                          FALSE, {})
    /\ CacheOnly

\* line 330
CachePlayerRemoved ==
    /\ \E u \in GameUuids :
          /\ UUID_CACHE' = BidictDel(UUID_CACHE, u)
          /\ lastEv' = Ev("cache_del", ACCEPT_JOIN_EVENTS, u \notin Keys(UUID_CACHE),
                          FALSE, {})
    /\ CacheOnly

\* how a lookup that was given res ended
Looked(fn, cache, r, why, unknown) ==
    [fn |-> fn,
     outcome |-> IF r.cache # cache THEN "stored" ELSE IF ~unknown THEN "hit" ELSE why,
     raised |-> r.raised, unknown |-> unknown, kept |-> r.cache = cache]

\* lines 353 and 361
CacheResolveId ==
    /\ \E n \in PlayerNames : \E res \in IdsOf(n) \cup IdFailures :
          /\ n \in Vals(UUID_CACHE) => res = NoUuid
          /\ LET r == mc_username_to_uuid(UUID_CACHE, n, res)
             IN  /\ UUID_CACHE' = r.cache
                 /\ lastEv' = [Ev("resolve_id", ACCEPT_JOIN_EVENTS, r.raised, FALSE, {})
                                  EXCEPT !.lk = Looked("mc_username_to_uuid", UUID_CACHE,
                                                      r,
                                                      IF res \in IdFailures THEN res.k
                                                      ELSE "collision",
                                                      r.ret = NoUuid)]
    /\ CacheOnly

\* lines 320 and 619
CacheResolveName ==
    /\ \E id \in AllUuids : \E res \in NamesOf(id.k) \cup NameFailures :
          /\ id \in Keys(UUID_CACHE) => res = Fail
          /\ LET r == mc_uuid_to_username(UUID_CACHE, id, res)
             IN  /\ UUID_CACHE' = r.cache
                 /\ lastEv' = [Ev("resolve_name", ACCEPT_JOIN_EVENTS, r.raised, FALSE, {})
                                  EXCEPT !.lk = Looked("mc_uuid_to_username", UUID_CACHE,
                                                      r,
                                                      IF res \in NameFailures THEN res
                                                      ELSE "collision",
                                                      r.ret = None)]
    /\ CacheOnly

\* mc_username_to_uuid(mc_uuid_to_username(id))
CacheRoundTrip ==
    /\ \E id \in AllUuids : \E res1 \in NamesOf(id.k) \cup {Fail} :
          /\ id \in Keys(UUID_CACHE) => res1 = Fail
          /\ LET r1 == mc_uuid_to_username(UUID_CACHE, id, res1)
             IN  \E res2 \in (IF r1.ret = None THEN {} ELSE IdsOf(r1.ret)) \cup {NoUuid} :
                   /\ r1.ret \in Vals(r1.cache) => res2 = NoUuid
                   /\ LET r2 == IF r1.ret = None
                                THEN [cache |-> r1.cache, ret |-> NoUuid, raised |-> FALSE]
                                ELSE mc_username_to_uuid(r1.cache, r1.ret, res2)
                      IN  /\ UUID_CACHE' = r2.cache
                          /\ lastEv' = [Ev("round_trip", ACCEPT_JOIN_EVENTS, FALSE, FALSE, {})
                                           EXCEPT !.rt = [id |-> id,
                                                          miss |-> id \notin Keys(UUID_CACHE),
                                                          name |-> r1.ret, back |-> r2.ret]]
    /\ CacheOnly

NextCache ==
    \/ CachePlayerAdded
    \/ CachePlayerRemoved
    \/ CacheResolveId
    \/ CacheResolveName
    \/ CacheRoundTrip

SpecCache == Init /\ [][NextCache]_vars

NextChat ==
    \/ ProbeOffline
    \/ ProbeOnline
    \/ ProbeRaises
    \/ ConnectOk
    \/ ConnectFail
    \/ HandleJoinGame
    \/ HandleDisconnectPacket
    \/ HandleException
    \/ HandleChat
    \/ HandleHealthUpdate

SpecChat == Init /\ [][NextChat]_vars

\* config.es_enabled set: every call of the lookups in the handlers is made
InitEs ==
    /\ GameInit
    /\ RelayIdle
    /\ accounts = NoAccounts
    /\ WEBHOOKS = GameWebhooks
    /\ es_enabled = TRUE

\* the packet listeners that read or write PLAYER_LIST and UUID_CACHE
NextSession ==
    \/ ProbeOffline
    \/ ProbeOnline
    \/ ProbeRaises
    \/ ConnectOk
    \/ ConnectFail
    \/ HandleJoinGame
    \/ HandleDisconnectPacket
    \/ HandleException
    \/ HandleTabList
    \/ HandleChat

SpecSession == InitEs /\ [][NextSession]_vars

(***************************************************************************)
(* on_message, chat-to-game relay (lines 608-703).  A text is a sequence   *)
(* of characters: "a", "b" and "_" are ASCII, " " is white space, "E2" is  *)
(* one character of two UTF-8 bytes, "EMOJI" is U+1F600 (four bytes) and   *)
(* "FFFD" is U+FFFD, the replacement character.                            *)
(***************************************************************************)
\* the ceiling of line 631
MaxChat == 256
\* config.message_delay, in ticks of the clock
MessageDelay == 2
\* the clock stops here
MaxTime == 3
\* the longest run of plain characters in a message
MaxFill == 253

Utf8Len(c) == CASE c = "E2" -> 2 [] c = "EMOJI" -> 4 [] OTHER -> 1
Rep(c, n) == [i \in 1..n |-> c]

\* s.encode('utf-8').decode('ascii', 'replace'): one U+FFFD per byte that is not ASCII
RECURSIVE AsciiReplace(_)
AsciiReplace(s) ==
    IF Len(s) = 0 THEN <<>>
    ELSE IF Len(s) = 1
         THEN (IF Utf8Len(s[1]) = 1 THEN s ELSE Rep("FFFD", Utf8Len(s[1])))
         ELSE LET h == Len(s) \div 2
              IN  AsciiReplace(SubSeq(s, 1, h)) \o AsciiReplace(SubSeq(s, h + 1, Len(s)))

\* lines 96-107: characters in the listed ranges are dropped
remove_emoji(s) == SelectSeq(s, LAMBDA c : c # "EMOJI")

\* str.strip()
RECURSIVE LStrip(_)
LStrip(s) == IF s # <<>> /\ s[1] = " " THEN LStrip(Tail(s)) ELSE s
RECURSIVE RStrip(_)
RStrip(s) == IF s # <<>> /\ s[Len(s)] = " " THEN RStrip(SubSeq(s, 1, Len(s) - 1)) ELSE s
Strip(s) == RStrip(LStrip(s))

\* lines 110-115: a backslash before every backslash, underscore and asterisk
RECURSIVE escape_markdown(_)
escape_markdown(s) ==
    IF Len(s) = 0 THEN <<>>
    ELSE IF Len(s) = 1
         THEN (IF s[1] \in {"\\", "_", "*"} THEN <<"\\", s[1]>> ELSE s)
         ELSE LET h == Len(s) \div 2
              IN  escape_markdown(SubSeq(s, 1, h)) \o escape_markdown(SubSeq(s, h + 1, Len(s)))

\* s[:n]
Slice(s, n) ==
    IF n >= 0 THEN SubSeq(s, 1, IF n < Len(s) THEN n ELSE Len(s))
    ELSE SubSeq(s, 1, IF Len(s) + n > 0 THEN Len(s) + n ELSE 0)

\* the cut taken at the ceiling itself, the prefix forgotten
CutIndexNoPadding(padding) == MaxChat

\* lines 632-633: 256 - padding
CutIndex(padding) == MaxChat - padding

\* lines 624-635
Outgoing(name, content) ==
    LET padding == 2 + Len(name)
        message_to_send == Strip(remove_emoji(AsciiReplace(content)))
        message_to_discord == escape_markdown(content)
        total_len == padding + Len(message_to_send)
    IN  [norm |-> message_to_send, esc |-> message_to_discord,
         text |-> IF total_len > MaxChat
                  THEN Slice(message_to_send, CutIndex(padding)) ELSE message_to_send,
         shown |-> IF total_len > MaxChat
                   THEN Slice(message_to_discord, CutIndex(padding)) ELSE message_to_discord,
         empty |-> ~(total_len > MaxChat) /\ Len(message_to_send) <= 0]

\* short messages, two of them the same once normalised
ShortContents == {<<"a">>, <<"a", " ">>, <<"b">>, <<" ">>}
\* messages whose length is at the ceiling, give or take the prefix
LongContents ==
    {h \o Rep("a", n) : h \in {<<>>, <<"_">>, <<"E2">>, <<" ">>, <<"EMOJI">>},
                        n \in (MaxFill - 1)..MaxFill}
\* Outgoing, worked out once for every sender name and message
OutgoingOf ==
    [n \in PlayerNames, c \in ShortContents \cup LongContents |-> Outgoing(n, c)]

\* the gate closed only for a repeat that also comes early
GateBlocksEarlyRepeat(text, prev, t, next) == text = prev /\ t < next

\* the gate closed only for a repeat, whenever it comes
GateBlocksRepeatOnly(text, prev, t, next) == text = prev

\* lines 642-643
GateBlocks(text, prev, t, next) == text = prev \/ t < next

Sent(via, to, kind, name, text, ok) ==
    [via |-> via, to |-> to, kind |-> kind, name |-> name, text |-> text, ok |-> ok]

\* the reply pattern of lines 644-661 and 681-700: privately when the message came
\* from a guild channel, in the channel itself when private delivery is Forbidden
Reply(author, channel, kind, text, forbidden) ==
    IF ~forbidden
    THEN {Sent("dm", IF channel = "dm" THEN "dm" ELSE author, kind, None, text, TRUE)}
    ELSE IF channel = "dm" THEN {}
         ELSE {Sent("public", channel, "allow_pm", None, <<>>, TRUE)}

\* lines 668-675, then 677-679.  sendFail = i: webhook.send for the i-th channel raises
Dispatch(chans, name, uuid, shown, text, sendFail) ==
    LET last == IF sendFail = 0 THEN Len(chans) ELSE sendFail
    IN  {Sent("webhook", chans[i], "redisplay", name, shown, i # sendFail) : i \in 1..last}
            \cup (IF sendFail = 0
                  THEN {Sent("game", "server", "chat", name, text, TRUE)} ELSE {})

Range(q) == {q[i] : i \in 1..Len(q)}
Author(id, bot) == [id |-> id, bot |-> bot]
\* discord_bot.user
BridgeUser == Author("bridge", TRUE)
Authors == {Author(u, FALSE) : u \in Users} \cup {Author("hook", TRUE), BridgeUser}
\* c3 is a guild channel without a registration
MsgChannels == {"c1", "c3", "dm"}

gameRest == <<PLAYER_LIST, PREVIOUS_PLAYER_LIST, ACCEPT_JOIN_EVENTS, session, notes,
              lastEv, ideal, tabLoop, online, lostPresence>>

\* what msg keeps from one event to the next
Carry(kind, author, channel, outcome) ==
    [MsgIdle EXCEPT !.kind = kind, !.author = author, !.channel = channel,
                    !.outcome = outcome, !.hadLast = msg.hadLast,
                    !.lastText = msg.lastText, !.lastAt = msg.lastAt,
                    !.lastRelayed = msg.lastRelayed, !.issued = msg.issued]

\* an on_message call that touches neither the cache nor the gate
Quiet(author, channel, outcome, sent) ==
    /\ out' = sent
    /\ msg' = Carry("message", author.id, channel, outcome)
    /\ UNCHANGED <<UUID_CACHE, PREVIOUS_MESSAGE, NEXT_MESSAGE_TIME>>

Deleted(channel) == Sent("delete", channel, "delete", None, <<>>, TRUE)

\* no author taken for a bot
NoAuthorIsBot(author) == FALSE

\* line 608: `elif not message.author.bot`; webhook authors are bots too
IsBotAuthor(author) == author.bot

\* on_message for a message that is no command; Contents is what may be typed
OnMessage(Contents) ==
    /\ \E author \in Authors, channel \in MsgChannels, content \in Contents,
          forbidden \in BOOLEAN, res \in PlayerNames \cup {Fail},
          sendFail \in 0..Len(channels) :
       LET row == IF author.id \in Users THEN accounts[author.id] ELSE NoRow
           plain == ~forbidden /\ res = Fail /\ sendFail = 0
           first == content = CHOOSE c \in Contents : TRUE
       IN  IF author = BridgeUser                                   \* lines 419-420
           THEN plain /\ first /\ Quiet(author, channel, "ignored_self", {})
           ELSE IF IsBotAuthor(author)                              \* line 608
           THEN plain /\ first /\ Quiet(author, channel, "ignored_bot", {})
           ELSE IF channel \notin Range(channels)                   \* lines 701-703
           THEN plain /\ first /\ Quiet(author, channel, "not_a_relay_channel", {})
           ELSE IF ~row.exists                                      \* lines 680-700
           THEN /\ res = Fail /\ sendFail = 0 /\ first
                /\ Quiet(author, channel, "unlinked",
                         {Deleted(channel)}
                             \cup Reply(author.id, channel, "link_instructions", <<>>,
                                        forbidden))
           ELSE IF row.minecraft_uuid = NoUuid                      \* line 615, no else
           THEN plain /\ first /\ Quiet(author, channel, "pending", {Deleted(channel)})
           ELSE
           LET uuid == row.minecraft_uuid
               lk == mc_uuid_to_username(UUID_CACHE, uuid, res)     \* line 619
           IN  /\ res \in NamesOf(uuid.k) \cup {Fail}
               /\ uuid \in Keys(UUID_CACHE) => res = Fail
               /\ IF lk.ret = None                                  \* line 624 raises
                  THEN /\ ~forbidden /\ sendFail = 0 /\ first
                       /\ Quiet(author, channel, "lookup_failed", {Deleted(channel)})
                  ELSE
                  LET o == OutgoingOf[lk.ret, content]
                      seen == [Carry("message", author.id, channel, "dropped_empty")
                                  EXCEPT !.name = lk.ret, !.norm = o.norm, !.esc = o.esc,
                                         !.text = o.text, !.shown = o.shown,
                                         !.same = msg.hadLast /\ o.text = msg.lastText,
                                         !.elapsed = ~msg.hadLast
                                                     \/ now >= msg.lastAt + MessageDelay,
                                         !.prevRelayed = msg.lastRelayed]
                  IN  /\ UUID_CACHE' = lk.cache
                      /\ IF o.empty                                 \* lines 634-635
                         THEN /\ ~forbidden /\ sendFail = 0
                              /\ out' = {Deleted(channel)}
                              /\ msg' = seen
                              /\ UNCHANGED <<PREVIOUS_MESSAGE, NEXT_MESSAGE_TIME>>
                         ELSE IF GateBlocks(o.text, PREVIOUS_MESSAGE, now,
                                            NEXT_MESSAGE_TIME)      \* lines 642-661
                         THEN /\ sendFail = 0
                              /\ out' = {Deleted(channel)}
                                           \cup Reply(author.id, channel, "rate_limited",
                                                      content, forbidden)
                              /\ msg' = [seen EXCEPT !.outcome = "blocked"]
                              /\ UNCHANGED <<PREVIOUS_MESSAGE, NEXT_MESSAGE_TIME>>
                         ELSE /\ ~forbidden                         \* lines 663-679
                              /\ PREVIOUS_MESSAGE' = o.text
                              /\ NEXT_MESSAGE_TIME' = now + MessageDelay
                              /\ out' = {Deleted(channel)}
                                           \cup Dispatch(channels, lk.ret, uuid, o.shown,
                                                         o.text, sendFail)
                              /\ msg' = [seen EXCEPT
                                            !.outcome = IF sendFail = 0 THEN "relayed"
                                                        ELSE "dispatch_failed",
                                            !.hadLast = TRUE, !.lastText = o.text,
                                            !.lastAt = now,
                                            !.lastRelayed = (sendFail = 0)]
    /\ UNCHANGED <<WEBHOOKS, es_enabled, accounts, channels, platformHooks, now,
                   gameRest>>

\* time passes
Tick ==
    /\ now < MaxTime
    /\ now' = now + 1
    /\ UNCHANGED <<gameVars, WEBHOOKS, es_enabled, NEXT_MESSAGE_TIME, PREVIOUS_MESSAGE,
                   accounts, channels, platformHooks, out, msg>>

OnShortMessage == OnMessage(ShortContents)

NextRelay ==
    \/ OnShortMessage
    \/ Tick

SpecRelay == InitLinked /\ [][NextRelay]_vars

OnLongMessage == OnMessage(LongContents)

\* every long message is tried at one and the same instant: the texts are cut
\* before the gate is asked
NextLong == OnLongMessage

SpecLong == InitLinked /\ [][NextLong]_vars

(***************************************************************************)
(* on_message, mc!register (lines 445-480), and the bind performed by the  *)
(* authentication listener                                                 *)
(***************************************************************************)
\* the most tokens an account asks for before it binds
MaxIssued == 2
\* the accounts that ask for a token
LinkUsers == {"u1", "u2"}

\* a token stored only when the account has none pending
StoreTokenKeepFirst(row, token) ==
    IF row.exists /\ row.link_token # None THEN row
    ELSE [row EXCEPT !.exists = TRUE, !.link_token = token]

\* lines 456-467: the row is created if absent; discord_account.link_token = new token
StoreToken(row, token) == [row EXCEPT !.exists = TRUE, !.link_token = token]

\* forbidden = "early": message.delete or create_dm raises Forbidden (lines 450-453);
\* "send": the reply of line 472 does; new_token is what generate_random_auth_token
\* draws (lines 156-158)
Register ==
    /\ \E author \in {Author(u, FALSE) : u \in LinkUsers} \cup {BridgeUser},
          channel \in {"c1", "dm"}, new_token \in Tokens,
          forbidden \in {"no", "early", "send"} :
       IF author = BridgeUser                                       \* lines 419-420
       THEN /\ forbidden = "no" /\ new_token = "t1"
            /\ out' = {}
            /\ msg' = Carry("register", author.id, channel, "ignored_self")
            /\ UNCHANGED accounts
       ELSE IF forbidden = "early"
       THEN /\ channel # "dm" /\ new_token = "t1"
            /\ out' = {Sent("public", channel, "allow_pm", None, <<>>, TRUE)}
            /\ msg' = Carry("register", author.id, channel, "forbidden")
            /\ UNCHANGED accounts
       ELSE /\ Len(msg.issued[author.id]) < MaxIssued
            /\ accounts' = [accounts EXCEPT ![author.id] = StoreToken(@, new_token)]
            /\ out' = (IF channel = "dm" THEN {} ELSE {Deleted(channel)})
                         \cup {[s EXCEPT !.name = new_token] :
                                 s \in Reply(author.id, channel, "connect_to", <<>>,
                                             forbidden = "send")}
            /\ msg' = [Carry("register", author.id, channel, "issued")
                          EXCEPT !.token = new_token,
                                 !.issued[author.id] = Append(@, new_token)]
    /\ UNCHANGED <<gameVars, WEBHOOKS, es_enabled, NEXT_MESSAGE_TIME, PREVIOUS_MESSAGE,
                   channels, platformHooks, now>>

\* a game client of identity uuid connects to "<token>.<auth_dns>": the listener
\* accepts it when an account holds the token, binds that account to the identity
\* and spends the token
Bind ==
    /\ \E token \in Tokens, uuid \in GameUuids :
       LET holders == {u \in Users : accounts[u].exists /\ accounts[u].link_token = token}
           shown == [u \in Users |->
                        IF msg.issued[u] # <<>> /\ token = msg.issued[u][Len(msg.issued[u])]
                        THEN "latest"
                        ELSE IF token \in Range(msg.issued[u]) THEN "earlier" ELSE "no"]
       IN  IF holders = {}
           THEN /\ msg' = [Carry("bind", None, None, "rejected")
                              EXCEPT !.token = token, !.presented = shown]
                /\ UNCHANGED accounts
           ELSE \E u \in holders :
                /\ accounts' = [accounts EXCEPT ![u] = Row(None, uuid)]
                /\ msg' = [Carry("bind", u, None, "bound")
                              EXCEPT !.token = token, !.accepted = TRUE,
                                     !.presented = shown, !.issued[u] = <<>>]
    /\ out' = {}
    /\ UNCHANGED <<gameVars, WEBHOOKS, es_enabled, NEXT_MESSAGE_TIME, PREVIOUS_MESSAGE,
                   channels, platformHooks, now>>

NextLink ==
    \/ Register
    \/ Bind

SpecLink == Init /\ [][NextLink]_vars

(***************************************************************************)
(* on_ready (lines 394-414) and the admin commands mc!chathere and         *)
(* mc!stopchathere (lines 483-559).  A webhook url is what the platform    *)
(* hands out when a hook is created; msg.deleted is the row count of the   *)
(* delete at line 545.                                                     *)
(***************************************************************************)
\* config.admin_users
AdminUsers == {"u1"}
\* c1 and c2 are registered at the start, c3 is not
GuildChannels == {"c1", "c2", "c3"}
\* hooks named "_minecraft" that may exist at a time
MaxHooks == 3
UrlPool == <<"h1", "h2", "h3", "h4", "h5", "h6">>
Urls == {UrlPool[i] : i \in 1..MaxHooks}

\* the url of a created webhook: one no hook has and WEBHOOKS does not hold
FreeUrls(ph, wh) == {u \in Urls : u \notin Range(wh) /\ \A c \in GuildChannels : <<u, c>> \notin ph}
FreshUrl(ph, wh) ==
    UrlPool[CHOOSE i \in 1..MaxHooks :
               /\ UrlPool[i] \in FreeUrls(ph, wh)
               /\ \A j \in 1..(i - 1) : UrlPool[j] \notin FreeUrls(ph, wh)]

\* lines 405-410: `await discord_channel.webhooks()`, those named "_minecraft"
HooksOf(ph, ch) == SelectSeq(SubSeq(UrlPool, 1, MaxHooks), LAMBDA u : <<u, ch>> \in ph)

\* lines 402-414 for the rows from the i-th on: a hook that is found is appended,
\* a hook that is missing is created and not appended
RECURSIVE ReadyFrom(_, _, _, _)
ReadyFrom(rows, i, wh, ph) ==
    IF i > Len(rows) THEN [wh |-> wh, ph |-> ph]
    ELSE LET found == HooksOf(ph, rows[i])
         IN  IF found # <<>>
             THEN ReadyFrom(rows, i + 1, wh \o found, ph)
             ELSE ReadyFrom(rows, i + 1, wh, ph \cup {<<FreshUrl(ph, wh), rows[i]>>})

Unhooked(rows, ph) == {i \in 1..Len(rows) : HooksOf(ph, rows[i]) = <<>>}

ChannelRest == <<gameVars, es_enabled, NEXT_MESSAGE_TIME, PREVIOUS_MESSAGE, accounts, now>>

\* on_ready (lines 394-414); discord.py calls it again after a reconnect
OnReady ==
    /\ Cardinality(FreeUrls(platformHooks, <<>>)) >= Cardinality(Unhooked(channels, platformHooks))
    /\ LET r == ReadyFrom(channels, 1, <<>>, platformHooks)              \* line 398
       IN  /\ WEBHOOKS' = r.wh
           /\ platformHooks' = r.ph
    /\ out' = {}
    /\ msg' = Carry("ready", None, None, "done")
    /\ UNCHANGED <<channels, ChannelRest>>

\* a command refused in a private channel only
RefusedInPrivateOnly(author, channel) == channel = "dm"

\* lines 484-504 and 523-543: a command in a private channel or by someone who is
\* not in config.admin_users
Refused(author, channel) == channel = "dm" \/ author \notin AdminUsers
Refusal(author, channel, forbidden) ==
    IF channel = "dm"
    THEN {Sent("dm", "dm", "public_channels_only", None, <<>>, TRUE)}
    ELSE {Deleted(channel)} \cup Reply(author, channel, "no_permission", <<>>, forbidden)

\* what a refused command does
Refuse(kind, author, channel, forbidden) ==
    /\ out' = Refusal(author, channel, forbidden)
    /\ msg' = Carry(kind, author, channel, "refused")
    /\ UNCHANGED <<WEBHOOKS, channels, platformHooks>>

\* mc!chathere (lines 483-520).  createFails: create_webhook raises
ChatHere ==
    /\ \E author \in {"u1", "u2"}, channel \in MsgChannels, forbidden \in BOOLEAN,
          createFails \in BOOLEAN :
        IF Refused(author, channel)
        THEN ~createFails /\ Refuse("chathere", author, channel, forbidden)
        ELSE IF channel \notin Range(channels)                       \* line 507
        THEN /\ ~forbidden
             /\ FreeUrls(platformHooks, WEBHOOKS) # {}
             /\ channels' = Append(channels, channel)                \* lines 508-510
             /\ IF createFails                                       \* line 513
                THEN /\ out' = {}
                     /\ msg' = Carry("chathere", author, channel, "raised")
                     /\ UNCHANGED <<WEBHOOKS, platformHooks>>
                ELSE LET url == FreshUrl(platformHooks, WEBHOOKS)
                     IN  /\ platformHooks' = platformHooks \cup {<<url, channel>>}
                         /\ WEBHOOKS' = Append(WEBHOOKS, url)        \* line 514
                         /\ out' = {Sent("public", channel, "chat_started", None, <<>>,
                                         TRUE)}
                         /\ msg' = Carry("chathere", author, channel, "started")
        ELSE /\ ~forbidden /\ ~createFails
             /\ out' = {Sent("public", channel, "already_chatting", None, <<>>, TRUE)}
             /\ msg' = Carry("chathere", author, channel, "already")
             /\ UNCHANGED <<WEBHOOKS, channels, platformHooks>>
    /\ UNCHANGED ChannelRest

\* mc!stopchathere (lines 522-559).  The rows are deleted and the delete committed
\* (lines 545-547); then `for webhook in message.channel` (line 548) iterates a
\* TextChannel, which is not iterable: TypeError leaves the handler before
\* WEBHOOKS is touched, a hook deleted or a reply sent
StopChatHere ==
    /\ \E author \in {"u1", "u2"}, channel \in MsgChannels, forbidden \in BOOLEAN :
        IF Refused(author, channel)
        THEN Refuse("stopchathere", author, channel, forbidden)
        ELSE /\ ~forbidden
             /\ channels' = SelectSeq(channels, LAMBDA c : c # channel)
             /\ out' = {}
             /\ msg' = [Carry("stopchathere", author, channel, "raised")
                           EXCEPT !.deleted = Len(SelectSeq(channels,
                                                            LAMBDA c : c = channel))]
             /\ UNCHANGED <<WEBHOOKS, platformHooks>>
    /\ UNCHANGED ChannelRest

\* the posts of a chat event (lines 375-376), one to every entry of WEBHOOKS; a
\* post arrives in the channel of the hook if the hook exists
ChannelOf(ph, url) ==
    IF \E c \in GuildChannels : <<url, c>> \in ph
    THEN CHOOSE c \in GuildChannels : <<url, c>> \in ph
    ELSE None
GamePost ==
    /\ out' = {Sent("hook", ChannelOf(platformHooks, WEBHOOKS[i]), "chat", "amy",
                    <<"hi">>, TRUE) : i \in 1..Len(WEBHOOKS)}
    /\ msg' = Carry("game_chat", None, None, "posted")
    /\ UNCHANGED <<WEBHOOKS, channels, platformHooks, ChannelRest>>

NextChannels ==
    \/ OnReady
    \/ ChatHere
    \/ StopChatHere
    \/ GamePost

SpecChannels == InitEs /\ [][NextChannels]_vars

(***************************************************************************)
(* Two threads.  pycraft calls the packet listeners on its networking      *)
(* thread (started by connection.connect(), line 392); discord_bot.run     *)
(* (line 705) runs on_message on the main thread.  Both use UUID_CACHE and *)
(* PLAYER_LIST without a lock, so the main thread's mc_uuid_to_username    *)
(* (line 619) is taken statement by statement: the membership test of line *)
(* 51 is one step, the read of line 67 another, and the listeners of the   *)
(* other thread may run in between.  msg.key is the uuid being looked up.  *)
(***************************************************************************)
RaceRest == <<WEBHOOKS, es_enabled, NEXT_MESSAGE_TIME, PREVIOUS_MESSAGE, accounts,
              channels, platformHooks, out, now, gameRest>>

\* line 51: `if uuid not in UUID_CACHE`; on a miss the request and the put of
\* line 61 (lines 52-65)
LookupTest ==
    /\ msg.outcome # "found_cached"
    /\ \E uuid \in GameUuids, res \in PlayerNames \cup NameFailures :
          /\ res \in NamesOf(uuid.k) \cup NameFailures
          /\ IF uuid \in Keys(UUID_CACHE)
             THEN /\ res = Fail
                  /\ msg' = [Carry("lookup", None, None, "found_cached")
                                EXCEPT !.key = uuid]
                  /\ UNCHANGED UUID_CACHE
             ELSE LET lk == mc_uuid_to_username(UUID_CACHE, uuid, res)
                  IN  /\ UUID_CACHE' = lk.cache
                      /\ msg' = [Carry("lookup", None, None, "looked_up")
                                    EXCEPT !.key = uuid, !.name = lk.ret]
    /\ UNCHANGED RaceRest

\* line 67: `return UUID_CACHE[uuid]`, which raises KeyError when the key is gone
LookupRead ==
    /\ msg.outcome = "found_cached"
    /\ msg' = IF msg.key \in Keys(UUID_CACHE)
              THEN [Carry("lookup", None, None, "returned")
                      EXCEPT !.key = msg.key, !.name = Get(UUID_CACHE, msg.key)]
              ELSE [Carry("lookup", None, None, "raised") EXCEPT !.key = msg.key]
    /\ UNCHANGED <<UUID_CACHE, RaceRest>>

NextRace ==
    \/ ProbeOffline
    \/ ProbeOnline
    \/ ProbeRaises
    \/ ConnectOk
    \/ ConnectFail
    \/ HandleJoinGame
    \/ HandleDisconnectPacket
    \/ HandleException
    \/ HandleTabList
    \/ LookupTest
    \/ LookupRead

SpecRace == InitEs /\ [][NextRace]_vars

(***************************************************************************)
(* Presence tracker and lifecycle: claims checked under Spec               *)
(***************************************************************************)
HookNotes == {n \in notes : n.via = "hook"}

\* C1: while the session is Active, however the actions are grouped into packets,
\* PLAYER_LIST holds exactly the identities added and not removed afterwards
\* (compared at every packet boundary).
C1_PresenceIsAddsMinusRemoves ==
    (session = "play" /\ ACCEPT_JOIN_EVENTS /\ tabLoop = "idle")
        => Keys(PLAYER_LIST) = ideal

\* C2: when the bridge's own identity is seen in the backfill of a new session,
\* every player that was present when the session was lost and is absent now
\* gets exactly one leave notification (on a hook or in the connection log).
C2_OneLeavePerLostPlayer ==
    lastEv.ownSeen =>
        \A u \in lostPresence \ Keys(PLAYER_LIST) :
            Cardinality({n \in notes : n.kind = "leave" /\ n.uuid = u}) = 1

\* C3: a join or leave notification is posted to a delivery endpoint only by an
\* action that started while the session was Active.
C3_NotifyOnlyWhileActive ==
    \A n \in HookNotes : n.kind \in {"join", "leave"} => n.acc

\* C8: a PlayerAdded action that presents a new name for a cached identity
\* overwrites the cache entry and does not fail.
C8_RenameOverwrites ==
    \A r \in lastEv.renamed : ~lastEv.err /\ <<r[1], r[2]>> \in UUID_CACHE

\* C10: the PlayerAdded action for the bridge's own name during backfill posts
\* nothing to any delivery endpoint, and the one that ends the backfill leaves
\* the session Active.
C10_OwnAddSilent ==
    /\ \A n \in HookNotes :
          ~(n.cause.type = "add" /\ n.cause.name = BOT_USERNAME /\ ~n.acc)
    /\ lastEv.ownSeen => (HookNotes = {} /\ ACCEPT_JOIN_EVENTS /\ session = "play")

\* the backfill of a session after a reconnect has ended with players still known
\* from the session before
C10_Witness ==
    /\ lastEv.ownSeen
    /\ PREVIOUS_PLAYER_LIST # {}
    /\ Cardinality(PLAYER_LIST) = 2

(***************************************************************************)
(* Game chat: claims checked under SpecChat                                *)
(***************************************************************************)
\* C5: whenever handle_chat was called with a "<speaker> text" event whose
\* speaker is the bridge's own game account, whatever the case of its letters,
\* the handler posted to no webhook.
C5_OwnChatNotForwarded ==
    (lastEv.kind = "chat" /\ lastEv.speaker \in {"Bot", "BOT", "bot"}) => HookNotes = {}

C5_Witness ==
    /\ lastEv.kind = "chat"
    /\ lastEv.speaker = "BOT"
    /\ UUID_CACHE # {}

(***************************************************************************)
(* Identity cache: claims checked under SpecCache                          *)
(***************************************************************************)
\* C7: whenever mc_uuid_to_username(id) returned a name, calling
\* mc_username_to_uuid on that name returned the very id that was passed in,
\* dashes included, whatever the cache held before.
C7_RoundTrip ==
    (lastEv.kind = "round_trip" /\ lastEv.rt.name # None) => lastEv.rt.back = lastEv.rt.id

C7_Witness ==
    /\ lastEv.kind = "round_trip"
    /\ lastEv.rt.name # None
    /\ lastEv.rt.miss
    /\ lastEv.rt.id.dashed
    /\ Cardinality(UUID_CACHE) = 2

(***************************************************************************)
(* Chat-to-game relay: claims checked under SpecRelay and SpecLong         *)
(***************************************************************************)
Attempt == msg.kind = "message" /\ msg.outcome \in {"blocked", "relayed", "dispatch_failed"}

\* C4 as stated: of two identical messages in immediate succession the second
\* is blocked, and an identical message that comes once the delay has elapsed,
\* no other message having been relayed since, is relayed.
C4_RepeatRelayedAfterDelay ==
    Attempt =>
        /\ (msg.same /\ ~msg.elapsed) => msg.outcome = "blocked"
        /\ (msg.same /\ msg.elapsed /\ msg.prevRelayed) => msg.outcome # "blocked"

\* C4: a linked sender's message whose normalised text equals the last text that
\* passed the gate is blocked however long ago that was: nothing is redisplayed or
\* transmitted and the sender gets the rate-limited reply (or, private delivery
\* being forbidden, the public request to allow it); a message with another text
\* that comes once the delay has elapsed passes the gate.
C4_RepeatStaysBlocked ==
    Attempt =>
        /\ msg.same =>
              /\ msg.outcome = "blocked"
              /\ \A s \in out : s.via \notin {"webhook", "game"}
              /\ \E s \in out : s.kind \in {"rate_limited", "allow_pm"}
        /\ (~msg.same /\ msg.elapsed) => msg.outcome # "blocked"

C4_Witness ==
    /\ Attempt
    /\ msg.same /\ msg.elapsed /\ msg.prevRelayed
    /\ msg.outcome = "blocked"
    /\ \E s \in out : s.kind = "rate_limited"

\* C6: whenever the normalised text of a chat-to-game message plus the prefix
\* overhead len(sender) + 2 exceeds 256, the to-game text and the redisplay text
\* are what their uncut forms hold before index 256 - (len(sender) + 2), the
\* transmitted "{sender}: {text}" is at most 256 long and so is the redisplayed text.
C6_CutAtCeiling ==
    (Attempt /\ Len(msg.norm) + (Len(msg.name) + 2) > 256) =>
        LET cut == 256 - (Len(msg.name) + 2)
        IN  /\ msg.text = SubSeq(msg.norm, 1, cut)
            /\ msg.shown = SubSeq(msg.esc, 1, IF cut < Len(msg.esc) THEN cut ELSE Len(msg.esc))
            /\ Len(msg.shown) <= 256
            /\ \A s \in out :
                  /\ s.via = "game" => (s.text = msg.text
                                        /\ Len(s.name) + Len(": ") + Len(s.text) <= 256)
                  /\ s.via = "webhook" => (s.text = msg.shown /\ Len(s.text) <= 256)

C6_Witness ==
    /\ Attempt
    /\ msg.outcome = "relayed"
    /\ Len(msg.norm) + (Len(msg.name) + 2) > 256
    /\ msg.esc # msg.norm
    /\ \E s \in out : s.via = "game" /\ Len(s.name) + Len(": ") + Len(s.text) = 256
    /\ \E s \in out : s.via = "webhook" /\ Len(s.text) < Len(msg.esc)

(***************************************************************************)
(* Account linking: claims checked under SpecLink                          *)
(***************************************************************************)
\* C9: an account that has asked for tokens holds exactly the last one it was
\* handed; a bind that presents an earlier, different token of an account is not
\* accepted for that account, and a bind that presents an account's latest token
\* is accepted.
C9_SecondTokenSupersedes ==
    /\ \A u \in Users :
          msg.issued[u] # <<>> =>
              accounts[u].link_token = msg.issued[u][Len(msg.issued[u])]
    /\ msg.kind = "bind" =>
          /\ \A u \in Users : msg.presented[u] = "earlier" => ~(msg.accepted /\ msg.author = u)
          /\ (\E u \in Users : msg.presented[u] = "latest") => msg.accepted

C9_Witness ==
    /\ msg.kind = "bind"
    /\ ~msg.accepted
    /\ \E u \in Users : msg.presented[u] = "earlier" /\ Len(msg.issued[u]) = 2

(***************************************************************************)
(* Failures of external calls                                              *)
(***************************************************************************)
\* C11: whatever the request to the Mojang API ends with (it raises, the identity
\* is unknown, the name history is empty, or the answer collides with an entry of
\* the cache), mc_uuid_to_username and mc_username_to_uuid raise nothing: they
\* return the resolved value or None, and when they return None the cache is as
\* it was.
C11_LookupsNeverRaise ==
    lastEv.kind \in {"resolve_id", "resolve_name"} =>
        /\ ~lastEv.lk.raised
        /\ lastEv.lk.unknown => lastEv.lk.kept

C11_Witness ==
    /\ lastEv.kind = "resolve_name"
    /\ lastEv.lk.outcome = "collision"
    /\ lastEv.lk.unknown
    /\ UUID_CACHE # {}

\* C12: when a post to one webhook fails while a notification is dispatched, a
\* post to every other entry of WEBHOOKS has been attempted all the same.
C12_OtherHooksStillPosted ==
    (\E n \in HookNotes : ~n.ok) =>
        \A i \in 1..Len(WEBHOOKS) : \E n \in HookNotes : n.hook = WEBHOOKS[i]

(***************************************************************************)
(* Reconnect loop: claims checked under Spec                               *)
(***************************************************************************)
\* C13 (its last part): after a fault or a disconnect packet, nothing the
\* liveness probe ends with ends the reconnect loop: the bridge stays probing
\* until it is about to connect again.
C13_ReconnectLoopNeverEnds == ~(lastEv.re /\ session = "dead")

\* C14: every call of connection.connect() comes right after a probe that
\* reported the server reachable, and after a probe that reported it unreachable
\* the bridge is back in the probing loop, not connecting.
C14_ConnectOnlyAfterReachableProbe ==
    /\ lastEv.kind = "connect" => lastEv.after = "probe_online"
    /\ lastEv.kind = "probe_offline" => session = "probing"
    /\ session = "reachable" => lastEv.kind = "probe_online"

C14_Witness ==
    /\ lastEv.kind = "connect"
    /\ ~lastEv.err
    /\ lostPresence # {}
    /\ PREVIOUS_PLAYER_LIST # {}

(***************************************************************************)
(* Senders without a bound identity: claim checked under SpecRelay         *)
(***************************************************************************)
\* C15: a message in a relay channel from a non-bot account with no bound game
\* identity (no account row, or a row with only a pending link token) is
\* answered with a link instruction, privately or, when private delivery is
\* forbidden, with the public request to allow it; nothing goes to the game or
\* to the redisplay.
C15_UnlinkedGetsLinkInstruction ==
    (/\ msg.kind = "message"
     /\ msg.author \in Users
     /\ msg.channel \in Range(channels)
     /\ accounts[msg.author].minecraft_uuid = NoUuid) =>
        /\ \E s \in out : s.kind \in {"link_instructions", "allow_pm"}
        /\ \A s \in out : s.via \notin {"game", "webhook"}

C17_RespawnExactlyWhenDead ==
    lastEv.kind = "health" =>
        /\ lastEv.health <= 0 => lastEv.written = <<"RESPAWN">>
        /\ lastEv.health > 0 => lastEv.written = <<>>

C17_Witness ==
    /\ lastEv.kind = "health"
    /\ lastEv.health = 0
    /\ lastEv.written = <<"RESPAWN">>
    /\ UUID_CACHE # {}

(***************************************************************************)
(* Duplicate removes: claim checked under Spec                             *)
(***************************************************************************)
\* C18: a RemovePlayerAction for an identity that is not in PLAYER_LIST leaves
\* PLAYER_LIST and UUID_CACHE as they were, posts no leave notification, raises
\* nothing and leaves the session as it was.
C18_DuplicateRemoveIgnored ==
    [][(/\ lastEv'.kind = "tab"
        /\ lastEv'.action.type = "remove"
        /\ ~lastEv'.listed) =>
            /\ PLAYER_LIST' = PLAYER_LIST
            /\ UUID_CACHE' = UUID_CACHE
            /\ ~\E n \in notes' : n.kind = "leave"
            /\ ~lastEv'.err
            /\ session' = session]_vars

(***************************************************************************)
(* The actions of one packet: claim checked under Spec                     *)
(***************************************************************************)
\* C19: handle_tab_list looks at every action of a packet: neither a duplicate
\* PlayerAdded nor a genuine join ends the handler while the packet still holds
\* actions, so no action is left unprocessed.
C19_EveryActionProcessed ==
    /\ tabLoop # "returned"
    /\ lastEv.kind # "tab_skipped"

(***************************************************************************)
(* Failing posts and the session: claim checked under SpecSession          *)
(***************************************************************************)
\* C20: a post to a delivery endpoint that fails while a presence or chat event
\* is handled does not tear the session down: nothing reaches
\* handle_disconnect, the session stays in play and ACCEPT_JOIN_EVENTS is not
\* reset.
C20_FailedPostKeepsSession ==
    (/\ lastEv.kind \in {"tab", "chat"}
     /\ \E n \in HookNotes : ~n.ok) =>
        /\ ~lastEv.err
        /\ session = "play"
        /\ ACCEPT_JOIN_EVENTS = lastEv.acc

(***************************************************************************)
(* The throttle state: claims checked under SpecRelay                      *)
(***************************************************************************)
\* C21: PREVIOUS_MESSAGE and NEXT_MESSAGE_TIME change only in an on_message call
\* that relays its message (redisplayed to every channel and transmitted into
\* the game): a blocked, dropped, unlinked or failed attempt leaves both as
\* they were.
C21_ThrottleChangesOnlyOnRelay ==
    [][(PREVIOUS_MESSAGE' # PREVIOUS_MESSAGE \/ NEXT_MESSAGE_TIME' # NEXT_MESSAGE_TIME)
          => /\ msg'.outcome = "relayed"
             /\ \E s \in out' : s.via = "game"]_vars

\* C22: a message that reaches the gate is blocked exactly when its normalised
\* text equals PREVIOUS_MESSAGE or the time is before NEXT_MESSAGE_TIME, whoever
\* sent it, and a relay sets NEXT_MESSAGE_TIME to the time of the relay plus the
\* configured delay and PREVIOUS_MESSAGE to the text.  (A step that leaves the
\* clock alone is an on_message call.)
C22_GateIsRepeatOrEarly ==
    [][(/\ now' = now
        /\ msg'.kind = "message"
        /\ msg'.outcome \in {"blocked", "relayed", "dispatch_failed"})
          => /\ msg'.outcome = "blocked"
                   <=> (msg'.text = PREVIOUS_MESSAGE \/ now < NEXT_MESSAGE_TIME)
             /\ msg'.outcome = "relayed"
                   => /\ NEXT_MESSAGE_TIME' = now + MessageDelay
                      /\ PREVIOUS_MESSAGE' = msg'.text]_vars

\* a second sender's other text, early, is blocked by the time alone
C22_Witness ==
    /\ msg.kind = "message"
    /\ msg.outcome = "blocked"
    /\ ~msg.same
    /\ now < NEXT_MESSAGE_TIME
    /\ msg.text # PREVIOUS_MESSAGE
    /\ msg.author = "u2"

(***************************************************************************)
(* Channel registrations and WEBHOOKS: claims checked under SpecChannels   *)
(***************************************************************************)
\* C23: after an admin's mc!stopchathere in a registered public channel the
\* registration is gone, no entry of WEBHOOKS is a hook of that channel, the
\* admin has a reply, and no later post of a game event arrives in a channel
\* without a registration.
C23_StoppedChannelGetsNothing ==
    /\ (msg.kind = "stopchathere" /\ msg.outcome # "refused" /\ msg.deleted > 0) =>
          /\ msg.channel \notin Range(channels)
          /\ \A i \in 1..Len(WEBHOOKS) :
                ChannelOf(platformHooks, WEBHOOKS[i]) # msg.channel
          /\ \E s \in out : s.to = msg.channel
    /\ msg.kind = "game_chat" => \A s \in out : s.to \in Range(channels) \cup {None}

\* the entries of WEBHOOKS that are hooks of channel c
EndpointsOf(c) == {i \in 1..Len(WEBHOOKS) : ChannelOf(platformHooks, WEBHOOKS[i]) = c}

\* C24: when on_ready has completed, and after every successful mc!chathere,
\* WEBHOOKS holds exactly one endpoint for each registered channel, also for one
\* whose hook had to be created and also when on_ready runs again, and every
\* entry of WEBHOOKS is the hook of a registered channel.
C24_OneHookPerRegisteredChannel ==
    (msg.kind = "ready" \/ (msg.kind = "chathere" /\ msg.outcome = "started")) =>
        /\ \A i \in 1..Len(channels) : Cardinality(EndpointsOf(channels[i])) = 1
        /\ \A i \in 1..Len(WEBHOOKS) :
              ChannelOf(platformHooks, WEBHOOKS[i]) \in Range(channels)

C26_CachedLookupReturns ==
    (msg.kind = "lookup" /\ msg.outcome \in {"returned", "raised"}) =>
        /\ msg.outcome = "returned"
        /\ msg.name # None

(***************************************************************************)
(* Echoes: claim checked under SpecRelay                                   *)
(***************************************************************************)
\* C27: a message authored by the bridge's own account or by a bot or webhook
\* author (the bridge's own redisplay and its game-to-chat posts among them) is
\* never transmitted into the game chat and does not change the throttle state:
\* on_message sends nothing at all for it.
C27_BotMessagesNeverRelayed ==
    [][(msg'.kind = "message" /\ msg'.author \in {BridgeUser.id, "hook"}) =>
            /\ out' = {}
            /\ PREVIOUS_MESSAGE' = PREVIOUS_MESSAGE
            /\ NEXT_MESSAGE_TIME' = NEXT_MESSAGE_TIME
            /\ msg'.outcome \in {"ignored_self", "ignored_bot"}]_vars

\* the redisplay of a relayed message comes back from the webhook in a relay
\* channel and is ignored
C27_Witness ==
    /\ msg.kind = "message"
    /\ msg.author = "hook"
    /\ msg.channel = "c1"
    /\ msg.outcome = "ignored_bot"
    /\ msg.lastRelayed
    /\ PREVIOUS_MESSAGE # <<>>
    /\ out = {}

====
